---- MODULE Spec2Model ----
(***************************************************************************)
(* SkillSpring: the skill assessor (app/assessments/assess.py) and the     *)
(* code-assessment page that drives it (app/assessments_page.py).          *)
(*                                                                         *)
(* Numbers that are Python floats in the source are exact rationals here,  *)
(* records [num, den] kept in lowest terms.  A source text is the list of  *)
(* its lines (code.split('\n')); a line is its leading blanks, its first   *)
(* non-blank character and the number of characters after it.  What the    *)
(* libraries outside the repository return (ast, radon, json, the OpenAI   *)
(* client) is drawn from small sets of outcomes.                           *)
(***************************************************************************)
EXTENDS Integers, Sequences, FiniteSets, TLC

\* Longest source text, in lines.
MaxLines == 3

(***************************************************************************)
(* Exact arithmetic                                                        *)
(***************************************************************************)
RECURSIVE GCD(_, _)
GCD(a, b) == IF b = 0 THEN a ELSE GCD(b, a % b)

Frac(n, d) == LET g == GCD(n, d) IN [num |-> n \div g, den |-> d \div g]

FInt(n) == Frac(n, 1)

FAdd(a, b) == Frac(a.num * b.den + b.num * a.den, a.den * b.den)

FSub(a, b) == Frac(a.num * b.den - b.num * a.den, a.den * b.den)

FMul(a, b) == Frac(a.num * b.num, a.den * b.den)

FDiv(a, k) == Frac(a.num, a.den * k)

FGt(a, b) == a.num * b.den > b.num * a.den

FLe(a, b) == ~FGt(a, b)

FMax(a, b) == IF FGt(b, a) THEN b ELSE a

FMin(a, b) == IF FGt(a, b) THEN b ELSE a

RECURSIVE SumSeq(_)
SumSeq(s) == IF s = <<>> THEN 0 ELSE Head(s) + SumSeq(Tail(s))

\* the least element of a non-empty set of integers
MinOf(S) == CHOOSE x \in S : \A y \in S : x <= y

Max(a, b) == IF a >= b THEN a ELSE b

Min(a, b) == IF a <= b THEN a ELSE b

(***************************************************************************)
(* Source texts                                                            *)
(***************************************************************************)
Line(ws, first, rest) == [ws |-> ws, first |-> first, rest |-> rest]

\* "", "  ", fifty characters of code, a line of 120 characters that begins
\* "//" (first "/"), an indented "#" comment of 120 characters
Lines ==
    { Line(0, "", 0), Line(2, "", 0), Line(0, "x", 49), Line(0, "/", 119),
      Line(2, "#", 117) }

\* len(line)
LineLen(l) == l.ws + (IF l.first = "" THEN 0 ELSE 1 + l.rest)

\* line.strip().startswith('#')
IsCommentLine(l) == l.first = "#"

\* code.split('\n'): never empty, the empty text is one empty line
Codes == UNION { [1..n -> Lines] : n \in 1..MaxLines }

EmptyCode == << Line(0, "", 0) >>

\* not code.strip()
IsBlank(code) == \A i \in 1..Len(code) : code[i].first = ""

Languages == {"python", "Python", "javascript"}

\* language.lower()
Lower(language) == IF language = "Python" THEN "python" ELSE language

\* language.title()
Title(language) ==
    CASE language = "python" -> "Python"
      [] language = "Python" -> "Python"
      [] language = "javascript" -> "Javascript"

(***************************************************************************)
(* Python values                                                           *)
(***************************************************************************)
PyNone == [t |-> "None"]

PyList(items) == [t |-> "list", items |-> items]

PyStr(s) == [t |-> "str", s |-> s]

PyDict(d) == [t |-> "dict", d |-> d]

\* bool(v)
Truthy(v) ==
    CASE v.t = "None" -> FALSE
      [] v.t = "list" -> v.items # <<>>
      [] v.t = "str" -> v.s # ""
      [] v.t = "dict" -> DOMAIN v.d # {}

\* v.get(key, default); only a dict has .get
HasGet(v) == v.t = "dict"

DictGet(v, key, default) == IF key \in DOMAIN v.d THEN v.d[key] ELSE default

(***************************************************************************)
(* What the libraries return                                               *)
(***************************************************************************)
\* ast.parse / radon over a text: a SyntaxError, or a tree with the line
\* counts of its function definitions (len(ast.unparse(f).split('\n'))),
\* radon's total complexity and the complexities of its blocks
ParseError == [ast |-> "SyntaxError", funcs |-> <<>>, total |-> 0, blocks |-> <<>>]

Tree(funcs, total, blocks) ==
    [ast |-> "ok", funcs |-> funcs, total |-> total, blocks |-> blocks]

\* ast.parse was not called
NoParse == [ast |-> "none", funcs |-> <<>>, total |-> 0, blocks |-> <<>>]

ParseOutcomes(code) ==
    IF IsBlank(code)
    THEN { Tree(<<>>, 0, <<>>), Tree(<<>>, 1, <<>>) }
    ELSE { ParseError, Tree(<<>>, 1, <<>>), Tree(<<2>>, 3, <<2>>) }

\* radon.metrics.mi_visit(code, multi=True): raises, returns a float, or
\* returns something whose element 0 is the index
MiValues == {0, 40, 80, 100}

\* mi_visit was not called
NoMi == [kind |-> "none", v |-> 0]

MiOutcomes ==
    { [kind |-> "raise", v |-> 0], [kind |-> "float", v |-> 80] }
        \cup { [kind |-> "seq", v |-> m] : m \in MiValues }

\* json.loads(response.output_text) when it succeeds
JsonValues ==
    { PyNone, PyList(<<>>), PyList(<<"a">>), PyStr("looks fine"),
      PyDict([k \in {} |-> PyNone]),
      PyDict([note |-> PyStr("n")]),
      PyDict([feedback |-> PyStr("not a list")]),
      PyDict([feedback |-> PyList(<<"f1">>),
              recommendations |-> PyList(<<"r1">>)]) }

\* self.client.responses.create(...): raises, or returns a response whose
\* output_text json.loads rejects, or one it parses
Responses ==
    { [kind |-> "raise", v |-> PyNone], [kind |-> "unparseable", v |-> PyNone] }
        \cup { [kind |-> "json", v |-> j] : j \in JsonValues }

(***************************************************************************)
(* SkillAssessor                                                           *)
(***************************************************************************)
ZeroComplexity == [cyclomatic |-> 0, cognitive |-> 0]

\* variant: the first block is read only when there is one
calculate_complexity_guarded(code, language, parse) ==
    IF Lower(language) # "python" THEN ZeroComplexity
    ELSE IF parse.ast = "SyntaxError" THEN ZeroComplexity
    ELSE [cyclomatic |-> parse.total,
          cognitive |-> IF ~IsBlank(code) /\ parse.blocks # <<>>
                        THEN parse.blocks[1] ELSE 0]

calculate_complexity(code, language, parse) ==
    IF Lower(language) # "python" THEN ZeroComplexity
    ELSE IF parse.ast = "SyntaxError" THEN ZeroComplexity
    ELSE IF ~IsBlank(code) /\ parse.blocks = <<>> THEN ZeroComplexity
    ELSE [cyclomatic |-> parse.total,
          cognitive |-> IF ~IsBlank(code) THEN parse.blocks[1] ELSE 0]

\* variant: the line length score is not clamped at 0
calculate_readability_unclamped(code, language) ==
    LET n == Max(1, Len(code))
        avg_line_length == Frac(SumSeq([i \in 1..Len(code) |-> LineLen(code[i])]), n)
        line_length_score == FSub(FInt(1), FDiv(avg_line_length, 100))
        comment_ratio ==
            Frac(Cardinality({i \in 1..Len(code) : IsCommentLine(code[i])}), n)
        comment_score == FMin(FInt(1), FMul(comment_ratio, FInt(3)))
    IN FAdd(FMul(line_length_score, Frac(6, 10)), FMul(comment_score, Frac(4, 10)))

calculate_readability(code, language) ==
    LET n == Max(1, Len(code))
        avg_line_length == Frac(SumSeq([i \in 1..Len(code) |-> LineLen(code[i])]), n)
        line_length_score == FMax(FInt(0), FSub(FInt(1), FDiv(avg_line_length, 100)))
        comment_ratio ==
            Frac(Cardinality({i \in 1..Len(code) : IsCommentLine(code[i])}), n)
        comment_score == FMin(FInt(1), FMul(comment_ratio, FInt(3)))
    IN FAdd(FMul(line_length_score, Frac(6, 10)), FMul(comment_score, Frac(4, 10)))

\* variant: the function count score is not capped at 1
calculate_modularity_uncapped(code, language, parse) ==
    IF Lower(language) = "python"
    THEN IF parse.ast = "SyntaxError" THEN Frac(1, 2)
         ELSE IF Len(code) = 0 THEN Frac(1, 2)
         ELSE LET func_count == Len(parse.funcs)
                  avg_func_size == Frac(SumSeq(parse.funcs), Max(1, func_count))
                  func_count_score == Frac(func_count, 10)
                  size_score == FMax(FInt(0), FSub(FInt(1), FDiv(avg_func_size, 50)))
              IN FAdd(FMul(func_count_score, Frac(4, 10)), FMul(size_score, Frac(6, 10)))
    ELSE Frac(1, 2)

calculate_modularity(code, language, parse) ==
    IF Lower(language) = "python"
    THEN IF parse.ast = "SyntaxError" THEN Frac(1, 2)
         ELSE IF Len(code) = 0 THEN Frac(1, 2)
         ELSE LET func_count == Len(parse.funcs)
                  avg_func_size == Frac(SumSeq(parse.funcs), Max(1, func_count))
                  func_count_score == FMin(FInt(1), Frac(func_count, 10))
                  size_score == FMax(FInt(0), FSub(FInt(1), FDiv(avg_func_size, 50)))
              IN FAdd(FMul(func_count_score, Frac(4, 10)), FMul(size_score, Frac(6, 10)))
    ELSE Frac(1, 2)

EmptyDict == [k \in {} |-> FInt(0)]

get_code_quality_metrics(code, language, parse, mi) ==
    IF IsBlank(code) THEN EmptyDict
    ELSE [maintainability |-> IF mi.kind = "seq" THEN FInt(mi.v) ELSE FInt(50),
          readability |-> calculate_readability(code, language),
          modularity |-> calculate_modularity(code, language, parse)]

\* metrics.get(key, default)
MetricsGet(metrics, key, default) ==
    IF key \in DOMAIN metrics THEN metrics[key] ELSE default

NoClientFeedback ==
    PyDict([feedback |-> PyList(<<
                "The code structure is well-organized with clear function definitions.",
                "Good use of variable naming conventions that enhance code readability.",
                "Could benefit from additional error handling for edge cases.",
                "Consider adding more inline comments to explain complex logic.",
                "The code follows good practices for the most part." >>),
            recommendations |-> PyList(<<
                "Add docstrings to functions and classes for better documentation.",
                "Consider breaking down larger functions into smaller, more focused ones.",
                "Implement input validation for better error handling." >>)])

InvalidJsonFeedback ==
    PyDict([feedback |-> PyList(<<
                "Code analysis complete. Consider implementing more robust error handling and documentation." >>),
            recommendations |-> PyList(<<
                "Add more comments to explain complex logic",
                "Consider breaking down larger functions into smaller, more focused ones" >>)])

ErrorFeedback ==
    PyDict([feedback |-> PyList(<<
                "Error generating feedback. The code appears to be syntactically correct." >>),
            recommendations |-> PyList(<<
                "Review the code for potential improvements",
                "Consider adding more error handling" >>)])

\* variant: the canned feedback depends on the code
get_ai_feedback_no_client_by_code(c, lang, cx, qm) ==
    IF IsBlank(c) THEN InvalidJsonFeedback ELSE NoClientFeedback

\* _get_ai_feedback of an assessor without client
get_ai_feedback_no_client(c, lang, cx, qm) == NoClientFeedback

NoResponse == [kind |-> "none", v |-> PyNone]

\* variant: a raising client gets the invalid-JSON fallback
ParseResponse_one_fallback(resp) ==
    CASE resp.kind = "raise" -> InvalidJsonFeedback
      [] resp.kind = "unparseable" -> InvalidJsonFeedback
      [] resp.kind = "json" -> resp.v

\* _get_ai_feedback once the client has answered
ParseResponse(resp) ==
    CASE resp.kind = "raise" -> ErrorFeedback
      [] resp.kind = "unparseable" -> InvalidJsonFeedback
      [] resp.kind = "json" -> resp.v

Levels == <<"Beginner", "Intermediate", "Advanced", "Expert">>

\* variant: inclusive thresholds
determine_skill_level_inclusive(cx, metrics, fb) ==
    LET maintainability == MetricsGet(metrics, "maintainability", FInt(0))
        readability == MetricsGet(metrics, "readability", Frac(1, 2))
        composite_score ==
            FAdd(FMul(FDiv(maintainability, 100), Frac(6, 10)),
                 FMul(readability, Frac(4, 10)))
    IN IF FLe(Frac(8, 10), composite_score) THEN "Expert"
       ELSE IF FLe(Frac(6, 10), composite_score) THEN "Advanced"
       ELSE IF FLe(Frac(4, 10), composite_score) THEN "Intermediate"
       ELSE "Beginner"

determine_skill_level(cx, metrics, fb) ==
    LET maintainability == MetricsGet(metrics, "maintainability", FInt(0))
        readability == MetricsGet(metrics, "readability", Frac(1, 2))
        composite_score ==
            FAdd(FMul(FDiv(maintainability, 100), Frac(6, 10)),
                 FMul(readability, Frac(4, 10)))
    IN IF FGt(composite_score, Frac(8, 10)) THEN "Expert"
       ELSE IF FGt(composite_score, Frac(6, 10)) THEN "Advanced"
       ELSE IF FGt(composite_score, Frac(4, 10)) THEN "Intermediate"
       ELSE "Beginner"

\* variant: a mistyped base score
base_scores_mistyped ==
    [Beginner |-> Frac(3, 10), Intermediate |-> Frac(5, 10),
     Advanced |-> Frac(7, 10), Expert |-> Frac(9, 10)]

base_scores ==
    [Beginner |-> Frac(3, 10), Intermediate |-> Frac(5, 10),
     Advanced |-> Frac(75, 100), Expert |-> Frac(9, 10)]

\* variant: the metrics outweigh the base score of the level
calculate_skill_score_metrics_heavy(level, metrics) ==
    LET maintainability == FDiv(MetricsGet(metrics, "maintainability", FInt(50)), 100)
        readability == MetricsGet(metrics, "readability", Frac(1, 2))
    IN FAdd(FAdd(FMul(base_scores[level], Frac(2, 10)),
                 FMul(maintainability, Frac(4, 10))),
            FMul(readability, Frac(4, 10)))

\* variant: maintainability is not brought to 0..1
calculate_skill_score_unnormalised(level, metrics) ==
    LET maintainability == MetricsGet(metrics, "maintainability", FInt(50))
        readability == MetricsGet(metrics, "readability", Frac(1, 2))
    IN FAdd(FAdd(FMul(base_scores[level], Frac(6, 10)),
                 FMul(maintainability, Frac(2, 10))),
            FMul(readability, Frac(2, 10)))

calculate_skill_score(level, metrics) ==
    LET maintainability == FDiv(MetricsGet(metrics, "maintainability", FInt(50)), 100)
        readability == MetricsGet(metrics, "readability", Frac(1, 2))
    IN FAdd(FAdd(FMul(base_scores[level], Frac(6, 10)),
                 FMul(maintainability, Frac(2, 10))),
            FMul(readability, Frac(2, 10)))

NoAssessment ==
    [user_id |-> "", skill_name |-> <<>>, level |-> "", score |-> FInt(0),
     feedback |-> PyNone, recommendations |-> PyNone]

Returned(a) == [status |-> "returned", value |-> a]

Raised(e) == [status |-> e, value |-> NoAssessment]

NoResult == [status |-> "none", value |-> NoAssessment]

PerformanceAnalytics(user_id) ==
    [user_id |-> user_id, skill_assessments |-> <<>>]

track_performance(user_id, assessment) ==
    LET analytics == PerformanceAnalytics(user_id)
    IN [analytics EXCEPT !.skill_assessments = Append(@, assessment)]

(***************************************************************************)
(* State                                                                   *)
(***************************************************************************)
VARIABLES
    client,                 \* self.client of the assessors: "None" or "client"
    pc,                     \* "idle", "awaiting" (request sent), "done", "warned"
    caller,                 \* who called assess_skills: "page", "direct", "package"
    code,                   \* the arguments and locals of the running call
    language,
    parse,                  \* what ast and radon made of the text
    mi,                     \* what mi_visit did
    complexity,
    quality_metrics,
    calls,                  \* invocations of client.responses.create in this call
    response,               \* what the client answered
    ai_feedback,
    result,                 \* what assess_skills returned or raised
    analytics,              \* what track_performance returned to the page
    performance_analytics,  \* st.session_state.performance_analytics
    last,                   \* history: level and score of the previous assessment
    memo,                   \* history: level and score of the first probe assessment
    users,                  \* the "users" list of users.json
    reg_result,             \* the last register_user call and what it returned
    session,                \* st.session_state: the keys "user" and "token"
    auth_result,            \* the authenticate_user call of this script run
    radio,                  \* the navigation widget: the option selected
    current_page,           \* st.session_state.current_page
    nav_options,            \* the options the last script run offered
    ran,                    \* the functions the last script run called
    rerun,                  \* st.rerun() was called: the script runs again
    regs,                   \* per session: the register_user call in progress
    fn_arg,                 \* a function under test: its arguments
    fn_out                  \* and its value

callVars ==
    << pc, caller, code, language, parse, mi, complexity, quality_metrics, calls,
       response, ai_feedback, result, analytics >>

historyVars == << last, memo >>

sessionVars == << session, auth_result, radio, current_page, nav_options, ran, rerun >>

authVars == << users, reg_result, sessionVars, regs >>

fnVars == << fn_arg, fn_out >>

vars ==
    << client, callVars, performance_analytics, historyVars, authVars, fnVars >>

NoAnalytics == PerformanceAnalytics("")

\* the languages the page's selectbox passes on, lower-cased
PageLanguages == {"python", "javascript"}

NoSummary == [level |-> "", score |-> FInt(0)]

LevelRank(level) ==
    CASE level = "Beginner" -> 1
      [] level = "Intermediate" -> 2
      [] level = "Advanced" -> 3
      [] level = "Expert" -> 4
      [] OTHER -> 0

\* variant: the level never falls below that of the previous assessment
BuildAssessment_sticky(lang, cx, metrics, fb) ==
    LET computed == determine_skill_level(cx, metrics, fb)
        skill_level == IF LevelRank(last.level) > LevelRank(computed)
                       THEN last.level ELSE computed
    IN IF Truthy(fb) /\ ~HasGet(fb)
       THEN Raised("AttributeError")
       ELSE Returned(
              [user_id |-> "current_user",
               skill_name |-> <<Title(lang), "Programming">>,
               level |-> skill_level,
               score |-> calculate_skill_score(skill_level, metrics),
               feedback |-> IF Truthy(fb)
                            THEN DictGet(fb, "feedback", PyList(<<>>))
                            ELSE PyList(<<>>),
               recommendations |-> IF Truthy(fb)
                                   THEN DictGet(fb, "recommendations", PyList(<<>>))
                                   ELSE PyList(<<>>)])

\* the tail of assess_skills: level, score and the SkillAssessment
BuildAssessment(lang, cx, metrics, fb) ==
    LET skill_level == determine_skill_level(cx, metrics, fb)
    IN IF Truthy(fb) /\ ~HasGet(fb)
       THEN Raised("AttributeError")
       ELSE Returned(
              [user_id |-> "current_user",
               skill_name |-> <<Title(lang), "Programming">>,
               level |-> skill_level,
               score |-> calculate_skill_score(skill_level, metrics),
               feedback |-> IF Truthy(fb)
                            THEN DictGet(fb, "feedback", PyList(<<>>))
                            ELSE PyList(<<>>),
               recommendations |-> IF Truthy(fb)
                                   THEN DictGet(fb, "recommendations", PyList(<<>>))
                                   ELSE PyList(<<>>)])

NoRegistration ==
    [called |-> FALSE, username |-> "", email |-> "", ok |-> FALSE, message |-> ""]

\* create_access_token({"sub": username}), and no token
Token(username) == [jwt |-> TRUE, sub |-> username]

NoToken == [jwt |-> FALSE, sub |-> ""]

\* a session state without the keys "user" and "token"
NoSession == [has_user |-> FALSE, user |-> "", has_token |-> FALSE, token |-> NoToken]

NoAuth == [called |-> FALSE, username |-> "", password |-> "",
           token |-> NoToken, message |-> ""]

\* the sessions that register concurrently, none of them in a call
Sessions == {"s1", "s2"}

NoCall == [pc |-> "idle", username |-> "", email |-> "", password |-> "",
           loaded |-> <<>>, ok |-> FALSE, message |-> ""]

IdleRegs == [s \in Sessions |-> NoCall]

\* a browser session before the first script run
IdleSession ==
    /\ session = NoSession
    /\ auth_result = NoAuth
    /\ radio = "Home"
    /\ current_page = ""
    /\ nav_options = <<>>
    /\ ran = {}
    /\ rerun = FALSE

NoArg == [language |-> "", tree |-> NoParse]

NoOut == [set |-> FALSE, value |-> FInt(0)]

IdleCall ==
    /\ pc = "idle"
    /\ caller = "none"
    /\ code = EmptyCode
    /\ language = "python"
    /\ parse = NoParse
    /\ mi = NoMi
    /\ complexity = ZeroComplexity
    /\ quality_metrics = EmptyDict
    /\ calls = 0
    /\ response = NoResponse
    /\ ai_feedback = PyNone
    /\ result = NoResult
    /\ analytics = NoAnalytics

Init ==
    /\ client \in {"None", "client"}
    /\ IdleCall
    /\ performance_analytics = PerformanceAnalytics("demo_user")
    /\ last = NoSummary
    /\ memo = NoSummary
    /\ users = <<>>
    /\ reg_result = NoRegistration
    /\ IdleSession
    /\ regs = IdleRegs
    /\ fn_arg = NoArg
    /\ fn_out = NoOut

Callers == {"page", "direct"}

\* the page refuses blank code and lower-cases the language; a direct caller
\* of SkillAssessor.assess_skills passes anything
CallAllowed(cl, c, lang) ==
    cl = "page" => (~IsBlank(c) /\ lang \in PageLanguages)

\* what the page does with the outcome of assess_skills
PageTrack(cl, res) ==
    IF cl = "page" /\ res.status = "returned"
    THEN track_performance("demo_user", res.value)
    ELSE NoAnalytics

\* ast and radon run on Python only, mi_visit on non-blank text only
ParseDone(c, lang, tree) == IF Lower(lang) = "python" THEN tree ELSE NoParse

MiDone(c, m) == IF IsBlank(c) THEN NoMi ELSE m

\* assess_skills of an assessor without client, start to end
AssessNoClientOver(codes) ==
    /\ pc = "idle"
    /\ client = "None"
    /\ \E cl \in Callers, c \in codes, lang \in Languages, m \in MiOutcomes :
         \E tree \in ParseOutcomes(c) :
           /\ CallAllowed(cl, c, lang)
           /\ LET cx == calculate_complexity(c, lang, tree)
                  qm == get_code_quality_metrics(c, lang, tree, m)
                  fb == get_ai_feedback_no_client(c, lang, cx, qm)
                  res == BuildAssessment(lang, cx, qm, fb)
              IN /\ complexity' = cx
                 /\ quality_metrics' = qm
                 /\ ai_feedback' = fb
                 /\ result' = res
                 /\ analytics' = PageTrack(cl, res)
           /\ caller' = cl
           /\ code' = c
           /\ language' = lang
           /\ parse' = ParseDone(c, lang, tree)
           /\ mi' = MiDone(c, m)
    /\ pc' = "done"
    /\ UNCHANGED << client, calls, response, performance_analytics, historyVars,
                    authVars, fnVars >>

AssessNoClient == AssessNoClientOver(Codes)

\* assess_skills of an assessor with a client, up to the request
AssessCallClientBy(callers, codes) ==
    /\ pc = "idle"
    /\ client # "None"
    /\ \E cl \in callers, c \in codes, lang \in Languages, m \in MiOutcomes :
         \E tree \in ParseOutcomes(c) :
           /\ CallAllowed(cl, c, lang)
           /\ complexity' = calculate_complexity(c, lang, tree)
           /\ quality_metrics' = get_code_quality_metrics(c, lang, tree, m)
           /\ caller' = cl
           /\ code' = c
           /\ language' = lang
           /\ parse' = ParseDone(c, lang, tree)
           /\ mi' = MiDone(c, m)
    /\ calls' = calls + 1
    /\ pc' = "awaiting"
    /\ UNCHANGED << client, response, ai_feedback, result, analytics,
                    performance_analytics, historyVars, authVars, fnVars >>

AssessCallClientOver(codes) == AssessCallClientBy(Callers, codes)

AssessCallClient == AssessCallClientOver(Codes)

\* variant: a raising client is asked once more
ClientResponds_retry ==
    /\ pc = "awaiting"
    /\ \E resp \in Responses :
         IF resp.kind = "raise" /\ calls < 2
         THEN /\ calls' = calls + 1
              /\ pc' = "awaiting"
              /\ UNCHANGED << response, ai_feedback, result, analytics >>
         ELSE LET fb == ParseResponse(resp)
                  res == BuildAssessment(language, complexity, quality_metrics, fb)
              IN /\ response' = resp
                 /\ ai_feedback' = fb
                 /\ result' = res
                 /\ analytics' = PageTrack(caller, res)
                 /\ pc' = "done"
                 /\ calls' = calls
    /\ UNCHANGED << client, caller, code, language, parse, mi, complexity,
                    quality_metrics, performance_analytics, historyVars,
                    authVars, fnVars >>

\* variant: the assessor itself files the assessment in the session's history
ClientResponds_files ==
    /\ pc = "awaiting"
    /\ \E resp \in Responses :
         LET fb == ParseResponse(resp)
             res == BuildAssessment(language, complexity, quality_metrics, fb)
         IN /\ response' = resp
            /\ ai_feedback' = fb
            /\ result' = res
            /\ analytics' = PageTrack(caller, res)
            /\ performance_analytics' =
                 IF res.status = "returned"
                 THEN [performance_analytics EXCEPT
                         !.skill_assessments = Append(@, res.value)]
                 ELSE performance_analytics
    /\ pc' = "done"
    /\ UNCHANGED << client, caller, code, language, parse, mi, complexity,
                    quality_metrics, calls, historyVars, authVars, fnVars >>

\* the client answers (or raises) and assess_skills runs to its end
ClientResponds ==
    /\ pc = "awaiting"
    /\ \E resp \in Responses :
         LET fb == ParseResponse(resp)
             res == BuildAssessment(language, complexity, quality_metrics, fb)
         IN /\ response' = resp
            /\ ai_feedback' = fb
            /\ result' = res
            /\ analytics' = PageTrack(caller, res)
    /\ pc' = "done"
    /\ UNCHANGED << client, caller, code, language, parse, mi, complexity,
                    quality_metrics, calls, performance_analytics, historyVars,
                    authVars, fnVars >>

\* the page's "Please enter some code to assess."
PageWarnEmpty ==
    /\ pc = "idle"
    /\ \E c \in Codes :
         /\ IsBlank(c)
         /\ code' = c
    /\ caller' = "page"
    /\ pc' = "warned"
    /\ UNCHANGED << client, language, parse, mi, complexity, quality_metrics,
                    calls, response, ai_feedback, result, analytics,
                    performance_analytics, historyVars, authVars, fnVars >>

\* the locals of a call that is over are dropped
DropLocals ==
    /\ pc \in {"done", "warned"}
    /\ pc' = "idle"
    /\ caller' = "none"
    /\ code' = EmptyCode
    /\ language' = "python"
    /\ parse' = NoParse
    /\ mi' = NoMi
    /\ complexity' = ZeroComplexity
    /\ quality_metrics' = EmptyDict
    /\ calls' = 0
    /\ response' = NoResponse
    /\ ai_feedback' = PyNone
    /\ result' = NoResult
    /\ analytics' = NoAnalytics
    /\ UNCHANGED << client, performance_analytics, authVars, fnVars >>

\* the level and score of the assessment a call returned
Summary(res) == [level |-> res.value.level, score |-> res.value.score]

\* the probe: fifty characters of Python with an estimated maintainability of 80
ProbeCode == << Line(0, "x", 49) >>

ProbeCall ==
    /\ code = ProbeCode
    /\ language = "python"
    /\ mi = [kind |-> "seq", v |-> 80]

\* the call is over; the history remembers its assessment
FinishRemember ==
    /\ DropLocals
    /\ last' = IF result.status = "returned" THEN Summary(result) ELSE last
    /\ memo' = IF result.status = "returned" /\ ProbeCall /\ memo = NoSummary
               THEN Summary(result) ELSE memo

\* the call is over
Finish ==
    /\ DropLocals
    /\ UNCHANGED historyVars

Next ==
    \/ AssessNoClient
    \/ AssessCallClient
    \/ ClientResponds
    \/ PageWarnEmpty
    \/ Finish

Spec == Init /\ [][Next]_vars

\* repeated assessments of a few one-line texts, with the history kept
RepeatCodes == { ProbeCode, << Line(2, "#", 117) >>, << Line(0, "/", 119) >> }

RepeatAssessNoClient == AssessNoClientOver(RepeatCodes)

RepeatAssessCallClient == AssessCallClientOver(RepeatCodes)

NextRepeat ==
    \/ RepeatAssessNoClient
    \/ RepeatAssessCallClient
    \/ ClientResponds
    \/ FinishRemember

SpecRepeat == Init /\ [][NextRepeat]_vars

\* the package-level assess_skills(code, language, client), where client is the
\* argument: with client None the name assessor, local to the function because
\* it is assigned there, is read before it is bound
PackageAssessDefault ==
    /\ pc = "idle"
    /\ client = "None"
    /\ \E c \in Codes, lang \in Languages :
         /\ code' = c
         /\ language' = lang
    /\ caller' = "package"
    /\ result' = Raised("UnboundLocalError")
    /\ pc' = "done"
    /\ UNCHANGED << client, parse, mi, complexity, quality_metrics, calls, response,
                    ai_feedback, analytics, performance_analytics, historyVars,
                    authVars, fnVars >>

\* with a client, a new SkillAssessor(client) assesses
PackageAssessClient == AssessCallClientBy({"package"}, Codes)

NextPackage ==
    \/ PackageAssessDefault
    \/ PackageAssessClient
    \/ ClientResponds
    \/ Finish

SpecPackage == Init /\ [][NextPackage]_vars

\* auth.py: the users file and register_user, one call after another
Usernames == {"ann", "Ann", "bob"}
Emails == {"ann@x.org", "bob@x.org", "cat@x.org"}
Passwords == {"pw1", "pw2"}

\* get_password_hash(password)
get_password_hash(password) == [scheme |-> "pbkdf2-sha256", of |-> password]

\* variant: only the username is looked up
register_user_by_name(stored, username, email, password) ==
    IF \E i \in 1..Len(stored) : stored[i].username = username
    THEN [users |-> stored, ok |-> FALSE, message |-> "Username already exists"]
    ELSE [users |-> Append(stored, [username |-> username,
                                    email |-> email,
                                    hashed_password |-> get_password_hash(password),
                                    full_name |-> "",
                                    disabled |-> FALSE]),
          ok |-> TRUE, message |-> "Registration successful"]

\* register_user on the stored list: the list saved (or left) and the pair returned
register_user(stored, username, email, password) ==
    IF \E i \in 1..Len(stored) : stored[i].username = username
    THEN [users |-> stored, ok |-> FALSE, message |-> "Username already exists"]
    ELSE IF \E i \in 1..Len(stored) : stored[i].email = email
    THEN [users |-> stored, ok |-> FALSE, message |-> "Email already registered"]
    ELSE [users |-> Append(stored, [username |-> username,
                                    email |-> email,
                                    hashed_password |-> get_password_hash(password),
                                    full_name |-> "",
                                    disabled |-> FALSE]),
          ok |-> TRUE, message |-> "Registration successful"]

RegisterUser ==
    \E u \in Usernames, e \in Emails, p \in Passwords :
      LET out == register_user(users, u, e, p)
      IN /\ users' = out.users
         /\ reg_result' = [called |-> TRUE, username |-> u, email |-> e,
                           ok |-> out.ok, message |-> out.message]
         /\ UNCHANGED << client, callVars, performance_analytics, historyVars,
                         sessionVars, regs, fnVars >>

NextAuth == RegisterUser

SpecAuth == Init /\ [][NextAuth]_vars

\* auth.py and main(): one browser session, one script run per step
Range(seq) == { seq[i] : i \in 1..Len(seq) }

\* pbkdf2_sha256.verify(plain_password, hashed_password)
verify_password(plain_password, hashed_password) ==
    hashed_password = get_password_hash(plain_password)

\* variant: the password is not verified
authenticate_user_any_password(stored, username, password) ==
    LET found == { i \in 1..Len(stored) : stored[i].username = username }
    IN IF found = {}
       THEN [token |-> NoToken, message |-> "Invalid username or password"]
       ELSE IF stored[MinOf(found)].disabled
       THEN [token |-> NoToken, message |-> "Account is disabled"]
       ELSE [token |-> Token(username), message |-> "Login successful"]

\* authenticate_user over the stored list: the pair returned
authenticate_user(stored, username, password) ==
    LET found == { i \in 1..Len(stored) : stored[i].username = username }
    IN IF found = {} \/ ~verify_password(password, stored[MinOf(found)].hashed_password)
       THEN [token |-> NoToken, message |-> "Invalid username or password"]
       ELSE IF stored[MinOf(found)].disabled
       THEN [token |-> NoToken, message |-> "Account is disabled"]
       ELSE [token |-> Token(username), message |-> "Login successful"]

is_authenticated(s) == s.has_user

\* variant: only the key "user" is deleted
logout_user_only(s) == [s EXCEPT !.has_user = FALSE, !.user = ""]

\* what logout leaves of the session state
logout(s) == [s EXCEPT !.has_user = FALSE, !.user = "",
                       !.has_token = FALSE, !.token = NoToken]

BaseOptions ==
    << "Home", "Profile", "Resume Builder", "Code Practice", "Assessment",
       "Learning Path", "Mock Interview", "Progress" >>

\* nav_options as main() builds it
NavOptions(s) ==
    IF is_authenticated(s) THEN Append(BaseOptions, "Community") ELSE BaseOptions

\* st.radio: the stored selection if it is among the options, else the first
Pick(options, value) == IF value \in Range(options) THEN value ELSE options[1]

\* the page routing of main(), in its order
Route(page) ==
    IF page = "Home" THEN "show_home"
    ELSE IF page = "Profile" THEN "show_profile"
    ELSE IF page = "Resume Builder" THEN "show_resume_builder"
    ELSE IF page = "Code Practice" THEN "show_coding_environment"
    ELSE IF page = "Learning Path" THEN "show_learning_path"
    ELSE IF page = "Mock Interview" THEN "show_mock_interview"
    ELSE IF page = "Progress" THEN "show_progress"
    ELSE IF page = "Assessment" THEN "show_assessment_page"
    ELSE IF page = "Community" THEN "show_community_hub"
    ELSE "none"

\* variant: the page is routed whoever asks
Content_open(s, page) == Route(page)

\* the main content area of main()
Content(s, page) ==
    IF ~is_authenticated(s) THEN "show_login_form" ELSE Route(page)

\* one run of main() to its end, with r selected in the navigation
Pass(r) ==
    /\ nav_options' = NavOptions(session)
    /\ radio' = Pick(NavOptions(session), r)
    /\ current_page' = Pick(NavOptions(session), r)
    /\ ran' = {"chat_with_mentor", Content(session, Pick(NavOptions(session), r))}

\* users.json as the application finds it: written by register_user, or
\* holding an account that was disabled in the file
DisabledUser ==
    [username |-> "dan", email |-> "dan@x.org",
     hashed_password |-> get_password_hash("pw1"), full_name |-> "", disabled |-> TRUE]

LoginNames == {"ann", "bob", "dan"}
SignupNames == {"ann", "bob"}
SignupEmails == {"ann@x.org", "bob@x.org"}

InitSession ==
    /\ client = "None"
    /\ IdleCall
    /\ performance_analytics = PerformanceAnalytics("demo_user")
    /\ last = NoSummary
    /\ memo = NoSummary
    /\ users \in {<<>>, <<DisabledUser>>}
    /\ reg_result = NoRegistration
    /\ IdleSession
    /\ regs = IdleRegs
    /\ fn_arg = NoArg
    /\ fn_out = NoOut

\* the script runs: first load, a navigation click, or any other widget
RunPlain ==
    /\ ~rerun
    /\ \E r \in Range(nav_options) \cup {radio} : Pass(r)
    /\ auth_result' = NoAuth
    /\ UNCHANGED << session, rerun, users, reg_result >>
    /\ UNCHANGED << client, callVars, performance_analytics, historyVars, regs, fnVars >>

\* the run that st.rerun() asked for
RunAgain ==
    /\ rerun
    /\ Pass(radio)
    /\ auth_result' = NoAuth
    /\ rerun' = FALSE
    /\ UNCHANGED << session, users, reg_result >>
    /\ UNCHANGED << client, callVars, performance_analytics, historyVars, regs, fnVars >>

\* the Logout button of the sidebar: logout() and st.rerun() end the run
RunLogout ==
    /\ ~rerun
    /\ is_authenticated(session)
    /\ nav_options # <<>>
    /\ session' = logout(session)
    /\ rerun' = TRUE
    /\ nav_options' = <<>>
    /\ ran' = {}
    /\ auth_result' = NoAuth
    /\ UNCHANGED << radio, current_page, users, reg_result >>
    /\ UNCHANGED << client, callVars, performance_analytics, historyVars, regs, fnVars >>

\* the Login button of show_login_form
RunLogin ==
    /\ ~rerun
    /\ "show_login_form" \in ran
    /\ Pass(radio)
    /\ \E u \in LoginNames, p \in Passwords :
         LET out == authenticate_user(users, u, p)
         IN /\ auth_result' = [called |-> TRUE, username |-> u, password |-> p,
                               token |-> out.token, message |-> out.message]
            /\ IF out.token.jwt
               THEN /\ session' = [session EXCEPT !.has_user = TRUE, !.user = u,
                                                  !.has_token = TRUE, !.token = out.token]
                    /\ rerun' = TRUE
               ELSE /\ session' = session
                    /\ rerun' = FALSE
    /\ UNCHANGED << users, reg_result >>
    /\ UNCHANGED << client, callVars, performance_analytics, historyVars, regs, fnVars >>

\* the Sign Up button of show_login_form
RunSignup ==
    /\ ~rerun
    /\ "show_login_form" \in ran
    /\ Pass(radio)
    /\ \E u \in SignupNames, e \in SignupEmails, p \in Passwords, c \in Passwords :
         IF p # c
         THEN UNCHANGED << users, reg_result >>
         ELSE LET out == register_user(users, u, e, p)
              IN /\ users' = out.users
                 /\ reg_result' = [called |-> TRUE, username |-> u, email |-> e,
                                   ok |-> out.ok, message |-> out.message]
    /\ auth_result' = NoAuth
    /\ UNCHANGED << session, rerun >>
    /\ UNCHANGED << client, callVars, performance_analytics, historyVars, regs, fnVars >>

NextSession ==
    \/ RunPlain
    \/ RunAgain
    \/ RunLogout
    \/ RunLogin
    \/ RunSignup

SpecSession == InitSession /\ [][NextSession]_vars

\* level and score of two metric maps side by side: maintainability over
\* 0..100 with the values around the level thresholds, readability over
\* 0..1, and the empty map of blank code
MaintainabilityGrid == {0, 10, 20, 30, 33, 34, 40, 50, 60, 66, 67, 70, 80, 90, 100}

ReadabilityGrid == { Frac(0, 1), Frac(1, 4), Frac(1, 2), Frac(3, 4), Frac(1, 1) }

MetricMaps ==
    {EmptyDict} \cup
    { [maintainability |-> FInt(m), readability |-> r, modularity |-> Frac(1, 2)] :
        m \in MaintainabilityGrid, r \in ReadabilityGrid }

\* level and score as assess_skills derives them from a metric map
LevelAndScore(metrics) ==
    LET skill_level == determine_skill_level(ZeroComplexity, metrics, PyNone)
    IN [level |-> skill_level, score |-> calculate_skill_score(skill_level, metrics)]

InitPairs ==
    /\ client = "None"
    /\ IdleCall
    /\ performance_analytics = PerformanceAnalytics("demo_user")
    /\ last = NoSummary
    /\ memo = NoSummary
    /\ users = <<>>
    /\ reg_result = NoRegistration
    /\ IdleSession
    /\ regs = IdleRegs
    /\ fn_arg \in [a : MetricMaps, b : MetricMaps]
    /\ fn_out = NoOut

ApplyLevelAndScore ==
    /\ ~fn_out.set
    /\ fn_out' = [set |-> TRUE,
                  value |-> [a |-> LevelAndScore(fn_arg.a), b |-> LevelAndScore(fn_arg.b)]]
    /\ UNCHANGED << client, callVars, performance_analytics, historyVars, authVars, fn_arg >>

NextPairs == ApplyLevelAndScore

SpecPairs == InitPairs /\ [][NextPairs]_vars

\* register_user called once by each of several sessions at the same time:
\* each call loads the users file, then checks, appends and saves what it loaded
RegLoad(s) ==
    /\ regs[s].pc = "idle"
    /\ \E u \in SignupNames, e \in SignupEmails, p \in Passwords :
         regs' = [regs EXCEPT ![s] = [pc |-> "loaded", username |-> u, email |-> e,
                                      password |-> p, loaded |-> users,
                                      ok |-> FALSE, message |-> ""]]
    /\ UNCHANGED << client, callVars, performance_analytics, historyVars,
                    users, reg_result, sessionVars, fnVars >>

RegSave(s) ==
    /\ regs[s].pc = "loaded"
    /\ LET out == register_user(regs[s].loaded, regs[s].username, regs[s].email,
                                regs[s].password)
       IN /\ users' = IF out.ok THEN out.users ELSE users
          /\ regs' = [regs EXCEPT ![s].pc = "returned", ![s].ok = out.ok,
                                  ![s].message = out.message]
    /\ UNCHANGED << client, callVars, performance_analytics, historyVars,
                    reg_result, sessionVars, fnVars >>

NextConcurrent ==
    \/ \E s \in Sessions : RegLoad(s)
    \/ \E s \in Sessions : RegSave(s)

SpecConcurrent == Init /\ [][NextConcurrent]_vars

\* main.py rate_answer on its own. An answer is a phrase followed by filler
\* words that hold no keyword; a text is given with its lower-case form.
Phrases == { "", "so", "I used", "i used", "I implemented", "code", "Code",
             "algorithm", "optimized", "debugged", "framework" }

\* str.lower() on the phrases and the interview types
LowerOf(text) ==
    CASE text = "I used" -> "i used"
      [] text = "I implemented" -> "i implemented"
      [] text = "Code" -> "code"
      [] text = "Technical Interview" -> "technical interview"
      [] text = "Behavioral Interview" -> "behavioral interview"
      [] text = "System Design" -> "system design"
      [] OTHER -> text

\* len(phrase.split())
WordsOf(text) ==
    IF text = "" THEN 0
    ELSE IF text \in {"I used", "i used", "I implemented"} THEN 2
    ELSE 1

FillerCounts == {0, 7, 8, 9, 10, 27, 28, 29, 30, 57, 58, 59, 60, 97, 98, 99, 100, 150}

InterviewTypes == {"Technical Interview", "Behavioral Interview", "System Design"}

\* "technical" in text, for the lower-cased interview types
HasTechnical(text) == text = "technical interview"

tech_keywords ==
    << "I used", "I implemented", "code", "algorithm", "optimized", "debugged",
       "framework" >>

\* keyword in text, for a lower-cased phrase followed by filler words
Contains(text, keyword) == text = keyword

rate_answer(answer, interview_type) ==
    LET word_count == WordsOf(answer.phrase) + answer.filler
        base_score == IF word_count < 10 THEN 1
                      ELSE IF word_count < 30 THEN 2
                      ELSE IF word_count < 60 THEN 3
                      ELSE IF word_count < 100 THEN 4
                      ELSE 5
    IN IF /\ HasTechnical(LowerOf(interview_type))
          /\ \E k \in 1..Len(tech_keywords) :
                Contains(LowerOf(answer.phrase), tech_keywords[k])
       THEN Min(5, base_score + 1)
       ELSE base_score

InitRate ==
    /\ client = "None"
    /\ IdleCall
    /\ performance_analytics = PerformanceAnalytics("demo_user")
    /\ last = NoSummary
    /\ memo = NoSummary
    /\ users = <<>>
    /\ reg_result = NoRegistration
    /\ IdleSession
    /\ regs = IdleRegs
    /\ fn_arg \in [answer : [phrase : Phrases, filler : FillerCounts],
                   interview_type : InterviewTypes]
    /\ fn_out = NoOut

ApplyRate ==
    /\ ~fn_out.set
    /\ fn_out' = [set |-> TRUE, value |-> rate_answer(fn_arg.answer, fn_arg.interview_type)]
    /\ UNCHANGED << client, callVars, performance_analytics, historyVars, authVars, fn_arg >>

NextRate == ApplyRate

SpecRate == InitRate /\ [][NextRate]_vars

\* coding_environment.py CodeExecutor.execute_code on its own; what
\* subprocess.run does is an input: it completes, times out or raises
ExecLanguages == {"Python", "JavaScript", "Java", "C++"}

Completed(out, err, rc) ==
    [kind |-> "completed", stdout |-> out, stderr |-> err, returncode |-> rc, message |-> ""]

TimeoutExpired ==
    [kind |-> "timeout", stdout |-> "", stderr |-> "", returncode |-> 0, message |-> ""]

RunRaises(msg) ==
    [kind |-> "raise", stdout |-> "", stderr |-> "", returncode |-> 0, message |-> msg]

RunOutcomes ==
    { Completed(out, err, rc) :
        out \in {"", "hello\n"}, err \in {"", "Traceback"}, rc \in {0, 1, -9} }
      \cup { TimeoutExpired,
             RunRaises("[Errno 2] No such file or directory: 'node'"),
             RunRaises("embedded null byte") }

UnboundResult == "local variable 'result' referenced before assignment"

\* variant: only the timeout is caught
execute_code_timeout_only(lang, run) ==
    IF lang \in {"Python", "JavaScript"}
    THEN CASE run.kind = "completed" ->
                [stdout |-> run.stdout, stderr |-> run.stderr,
                 returncode |-> run.returncode]
           [] run.kind = "timeout" ->
                [error |-> "Execution timed out. Check for infinite loops."]
           [] OTHER -> [raised |-> run.message]
    ELSE [raised |-> UnboundResult]

execute_code(lang, run) ==
    IF lang \in {"Python", "JavaScript"}
    THEN CASE run.kind = "completed" ->
                [stdout |-> run.stdout, stderr |-> run.stderr,
                 returncode |-> run.returncode]
           [] run.kind = "timeout" ->
                [error |-> "Execution timed out. Check for infinite loops."]
           [] OTHER -> [error |-> run.message]
    ELSE [error |-> UnboundResult]

InitExec ==
    /\ client = "None"
    /\ IdleCall
    /\ performance_analytics = PerformanceAnalytics("demo_user")
    /\ last = NoSummary
    /\ memo = NoSummary
    /\ users = <<>>
    /\ reg_result = NoRegistration
    /\ IdleSession
    /\ regs = IdleRegs
    /\ fn_arg \in [language : ExecLanguages, run : RunOutcomes]
    /\ fn_out = NoOut

ApplyExec ==
    /\ ~fn_out.set
    /\ fn_out' = [set |-> TRUE, value |-> execute_code(fn_arg.language, fn_arg.run)]
    /\ UNCHANGED << client, callVars, performance_analytics, historyVars, authVars, fn_arg >>

NextExec == ApplyExec

SpecExec == InitExec /\ [][NextExec]_vars

\* assess.py get_code_quality_metrics (the function of the module, not the
\* method of SkillAssessor) on its own
GetCodeQualityMetrics(c, lang, tree, m) ==
    LET metrics == get_code_quality_metrics(c, lang, tree, m)
    IN [file_path |-> "inline_code",
        metrics |->
          [maintainability |-> MetricsGet(metrics, "maintainability", FInt(50)),
           complexity |-> IF "complexity" \in DOMAIN metrics
                          THEN metrics["complexity"].cyclomatic
                          ELSE 0],
        issues |-> <<>>]

QualityArgs ==
    UNION { [code : {c}, language : Languages, tree : ParseOutcomes(c), mi : MiOutcomes] :
              c \in Codes }

InitQuality ==
    /\ client = "None"
    /\ IdleCall
    /\ performance_analytics = PerformanceAnalytics("demo_user")
    /\ last = NoSummary
    /\ memo = NoSummary
    /\ users = <<>>
    /\ reg_result = NoRegistration
    /\ IdleSession
    /\ regs = IdleRegs
    /\ fn_arg \in QualityArgs
    /\ fn_out = NoOut

ApplyQuality ==
    /\ ~fn_out.set
    /\ fn_out' = [set |-> TRUE,
                  value |-> GetCodeQualityMetrics(fn_arg.code, fn_arg.language,
                                                  fn_arg.tree, fn_arg.mi)]
    /\ UNCHANGED << client, callVars, performance_analytics, historyVars, authVars, fn_arg >>

NextQuality == ApplyQuality

SpecQuality == InitQuality /\ [][NextQuality]_vars

\* _calculate_modularity on its own, over syntax trees with up to MaxFuncs
\* function definitions; the text enters only through its line count, which
\* is never 0
MaxFuncs == 11

\* len(ast.unparse(f).split('\n')) of a function definition
FuncSizes == {2, 50, 80}

FuncLists ==
    {<<>>} \cup { [i \in 1..n |-> IF i = 1 THEN a ELSE b] :
                    n \in 1..MaxFuncs, a \in FuncSizes, b \in FuncSizes }

ModularityTrees == {ParseError} \cup { Tree(f, 1 + Len(f), f) : f \in FuncLists }

ModularityArgs == [language : Languages, tree : ModularityTrees]

InitModularity ==
    /\ client = "None"
    /\ IdleCall
    /\ performance_analytics = PerformanceAnalytics("demo_user")
    /\ last = NoSummary
    /\ memo = NoSummary
    /\ users = <<>>
    /\ reg_result = NoRegistration
    /\ IdleSession
    /\ regs = IdleRegs
    /\ fn_arg \in ModularityArgs
    /\ fn_out = NoOut

ApplyModularity ==
    /\ ~fn_out.set
    /\ fn_out' = [set |-> TRUE,
                  value |-> calculate_modularity(ProbeCode, fn_arg.language, fn_arg.tree)]
    /\ UNCHANGED << client, callVars, performance_analytics, historyVars, authVars, fn_arg >>

NextModularity == ApplyModularity

SpecModularity == InitModularity /\ [][NextModularity]_vars

(***************************************************************************)
(* Properties                                                              *)
(***************************************************************************)
DoneReturned == pc = "done" /\ result.status = "returned"

\* the maintainability and readability _determine_skill_level works with
LevelMaintainability ==
    IF "maintainability" \in DOMAIN quality_metrics
    THEN quality_metrics["maintainability"] ELSE [num |-> 0, den |-> 1]

\* the maintainability _calculate_skill_score works with
ScoreMaintainability ==
    IF "maintainability" \in DOMAIN quality_metrics
    THEN quality_metrics["maintainability"] ELSE [num |-> 50, den |-> 1]

UsedReadability ==
    IF "readability" \in DOMAIN quality_metrics
    THEN quality_metrics["readability"] ELSE [num |-> 1, den |-> 2]

\* composite = CompositeNum / CompositeDen
CompositeNum ==
    6 * LevelMaintainability.num * UsedReadability.den
        + 400 * UsedReadability.num * LevelMaintainability.den

CompositeDen == 1000 * LevelMaintainability.den * UsedReadability.den

\* C1: assess_skills never raises; whatever the code, the language and the
\* client's behaviour, the call ends with a fully populated SkillAssessment.
C1_NeverRaises ==
    pc = "done" => result.status = "returned"

\* C2: the score of every returned SkillAssessment lies in [0,1].
C2_ScoreInUnitInterval ==
    DoneReturned =>
        /\ result.value.score.den > 0
        /\ result.value.score.num >= 0
        /\ result.value.score.num <= result.value.score.den

\* an Expert assessment with maintainability 100: the scores nearest to 1
C2_Witness ==
    /\ DoneReturned
    /\ result.value.level = "Expert"
    /\ LevelMaintainability.num = 100
    /\ 100 * result.value.score.num > 85 * result.value.score.den

\* C3: the level is a step function of
\* composite = 0.6*(maintainability/100) + 0.4*readability with exclusive
\* lower boundaries: > 0.8 Expert, else > 0.6 Advanced, else > 0.4
\* Intermediate, else Beginner.
C3_LevelThresholds ==
    DoneReturned =>
        result.value.level =
            IF 10 * CompositeNum > 8 * CompositeDen THEN "Expert"
            ELSE IF 10 * CompositeNum > 6 * CompositeDen THEN "Advanced"
            ELSE IF 10 * CompositeNum > 4 * CompositeDen THEN "Intermediate"
            ELSE "Beginner"

\* a composite of exactly 0.6 is Intermediate
C3_Witness ==
    /\ DoneReturned
    /\ 10 * CompositeNum = 6 * CompositeDen
    /\ result.value.level = "Intermediate"

\* base(level), in hundredths
BaseHundredths(level) ==
    CASE level = "Beginner" -> 30
      [] level = "Intermediate" -> 50
      [] level = "Advanced" -> 75
      [] level = "Expert" -> 90

\* C4: score = 0.6*base(level) + 0.2*(maintainability/100) + 0.2*readability,
\* with the level of the same assessment.
C4_ScoreFormula ==
    DoneReturned =>
        LET m == ScoreMaintainability
            r == UsedReadability
            n == 6 * BaseHundredths(result.value.level) * m.den * r.den
                   + 2 * m.num * r.den + 200 * r.num * m.den
            d == 1000 * m.den * r.den
            g == GCD(n, d)
        IN /\ result.value.score.num = n \div g
           /\ result.value.score.den = d \div g

\* an Advanced assessment with an estimated maintainability of 80
C4_Witness ==
    /\ DoneReturned
    /\ result.value.level = "Advanced"
    /\ "maintainability" \in DOMAIN quality_metrics
    /\ quality_metrics["maintainability"].num = 80

\* C5: without client every call returns the same fixed 5-item feedback and
\* 3-item recommendations, and the client is never invoked.
C5_NoClientCanned ==
    (pc = "done" /\ client = "None") =>
        /\ result.status = "returned"
        /\ result.value.feedback = NoClientFeedback.d.feedback
        /\ result.value.recommendations = NoClientFeedback.d.recommendations
        /\ Len(result.value.feedback.items) = 5
        /\ Len(result.value.recommendations.items) = 3
        /\ calls = 0
        /\ response = NoResponse

\* the empty text, assessed as JavaScript without client
C5_Witness ==
    /\ pc = "done"
    /\ client = "None"
    /\ code = EmptyCode
    /\ language = "javascript"
    /\ result.status = "returned"

\* C6: when the client raises, assess_skills still returns, with the
\* feedback beginning "Error generating feedback. " and the fixed two
\* recommendations.
C6_ClientErrorFallback ==
    (pc = "done" /\ response.kind = "raise") =>
        /\ result.status = "returned"
        /\ result.value.feedback = PyList(<<
             "Error generating feedback. The code appears to be syntactically correct." >>)
        /\ result.value.recommendations = PyList(<<
             "Review the code for potential improvements",
             "Consider adding more error handling" >>)

\* the page's assessment of a text with a raising client
C6_Witness ==
    /\ pc = "done"
    /\ caller = "page"
    /\ response.kind = "raise"
    /\ result.status = "returned"

\* a response that is a JSON object with 'feedback' and 'recommendations' lists
WellFormed(resp) ==
    /\ resp.kind = "json"
    /\ resp.v.t = "dict"
    /\ {"feedback", "recommendations"} \subseteq DOMAIN resp.v.d
    /\ resp.v.d["feedback"].t = "list"
    /\ resp.v.d["recommendations"].t = "list"

Malformed(resp) == resp.kind \in {"unparseable", "json"} /\ ~WellFormed(resp)

\* C7: when the client returns a malformed structured response, the
\* feedback and recommendations are a fixed canned fallback pair other than
\* the no-client pair: not the malformed content, not empty lists.
C7_MalformedFallback ==
    (pc = "done" /\ Malformed(response)) =>
        /\ result.status = "returned"
        /\ \E canned \in {InvalidJsonFeedback, ErrorFeedback} :
             /\ result.value.feedback = canned.d.feedback
             /\ result.value.recommendations = canned.d.recommendations

\* C8: within one assess_skills call the client is invoked at most once:
\* once when there is a client, never when there is none, and a failed
\* invocation is not repeated.
C8_OneInvocation ==
    /\ calls <= 1
    /\ pc = "awaiting" => calls = 1
    /\ pc = "done" => calls = (IF client = "None" THEN 0 ELSE 1)

\* a call whose one invocation raised has ended
C8_Witness ==
    /\ pc = "done"
    /\ response.kind = "raise"
    /\ calls = 1

\* C9: for empty code the maintainability is 50 and the readability is the
\* readability formula's value over the empty text, and these two values
\* give both the level and the score.
C9_EmptyCodeDefaults ==
    (DoneReturned /\ code = EmptyCode) =>
        LET expected ==
              [maintainability |-> FInt(50),
               readability |-> calculate_readability(EmptyCode, language)]
            level == determine_skill_level(complexity, expected, ai_feedback)
        IN /\ LevelMaintainability = FInt(50)
           /\ ScoreMaintainability = FInt(50)
           /\ UsedReadability = expected.readability
           /\ result.value.level = level
           /\ result.value.score = calculate_skill_score(level, expected)

\* a step in which the page's assessment of a text ends with a result
PageAssessmentCompletes ==
    /\ pc # "done"
    /\ pc' = "done"
    /\ caller' = "page"
    /\ result'.status = "returned"

\* C10: the per-subject history accumulates: every assessment completed
\* on the page is appended to the subject's history, which grows by one per
\* assessment and never shrinks.
C10_HistoryAccumulates ==
    [][ /\ PageAssessmentCompletes =>
            performance_analytics'.skill_assessments =
                Append(performance_analytics.skill_assessments, result'.value)
        /\ Len(performance_analytics'.skill_assessments) >=
                Len(performance_analytics.skill_assessments) ]_vars

AssessStep == pc' \in {"awaiting", "done"} /\ pc' # pc

\* C12: assess_skills has no side effects on state owned by others: the
\* assessor's client, the session's PerformanceAnalytics and the users file
\* are as before, and the result enters a history only when the caller
\* (the page) puts it there.
C12_NoSideEffects ==
    [][ AssessStep =>
          /\ client' = client
          /\ performance_analytics' = performance_analytics
          /\ users' = users
          /\ (caller' # "page" => analytics' = NoAnalytics) ]_vars

\* a direct call of an assessor with a client has returned
C12_Witness ==
    /\ DoneReturned
    /\ caller = "direct"
    /\ client = "client"
    /\ response.kind = "json"

\* the metric map of the call in progress has been computed and is not empty
MetricsComputed == pc \in {"awaiting", "done"} /\ "readability" \in DOMAIN quality_metrics

\* number of lines, total of their lengths and number of lines whose trimmed
\* content starts with '#', of the code under assessment
LineCount == Max(1, Len(code))
TotalLength == SumSeq([i \in 1..Len(code) |-> LineLen(code[i])])
HashLines == Cardinality({i \in 1..Len(code) : code[i].first = "#"})

\* 1000 * LineCount * (0.6*max(0, 1 - avg/100) + 0.4*min(1, ratio*3))
ReadabilityThousandths ==
    6 * Max(0, 100 * LineCount - TotalLength) + 400 * Min(LineCount, 3 * HashLines)

\* C13: readability is 0.6*max(0, 1 - avgLineLength/100)
\* + 0.4*min(1, commentLineRatio*3), both averages over max(1, lines); it is
\* in [0,1]; one 50-character line without comments gives 0.3.
C13_ReadabilityFormula ==
    MetricsComputed =>
        LET r == quality_metrics.readability
        IN /\ r.num * (1000 * LineCount) = r.den * ReadabilityThousandths
           /\ FLe(FInt(0), r) /\ FLe(r, FInt(1))
           /\ (code = ProbeCode => r = Frac(3, 10))

\* the metrics of code whose lines average more than 100 characters, and of the
\* single 50-character line, have been computed
C13_Witness ==
    /\ MetricsComputed
    /\ \/ TotalLength > 100 * LineCount /\ HashLines > 0
       \/ code = ProbeCode

\* the first characters of a comment line in the declared language
\* ("/" stands for a line that begins with "//")
CommentMarker(lang) == IF Lower(lang) = "python" THEN "#" ELSE "/"

\* lines whose trimmed content starts with the declared language's marker
MarkerLines == Cardinality({i \in 1..Len(code) : code[i].first = CommentMarker(language)})

\* C14: the comment-line ratio of readability counts the lines that start with
\* the comment marker of the declared language, over max(1, lines).
C14_LanguageMarker ==
    MetricsComputed =>
        LET r == quality_metrics.readability
        IN r.num * (1000 * LineCount) =
             r.den * (6 * Max(0, 100 * LineCount - TotalLength)
                        + 400 * Min(LineCount, 3 * MarkerLines))

\* _calculate_modularity was applied to Python code that parses
ModularityOfParsedPython ==
    /\ fn_out.set
    /\ Lower(fn_arg.language) = "python"
    /\ fn_arg.tree.ast = "ok"

FuncCount == Len(fn_arg.tree.funcs)
FuncLines == SumSeq(fn_arg.tree.funcs)

\* 500 * max(1, FuncCount) * (0.4*min(1, count/10) + 0.6*max(0, 1 - avg/50))
ModularityFiveHundredths ==
    20 * Max(1, FuncCount) * Min(10, FuncCount)
      + 6 * Max(0, 50 * Max(1, FuncCount) - FuncLines)

\* C15: for Python code that parses, modularity is 0.4*min(1, functionCount/10)
\* + 0.6*max(0, 1 - avgFunctionBodyLines/50), the average over
\* max(1, functionCount); it is in [0,1]; 10 functions averaging 50 lines
\* give 0.4.
C15_ModularityFormula ==
    ModularityOfParsedPython =>
        LET m == fn_out.value
        IN /\ m.num * (500 * Max(1, FuncCount)) = m.den * ModularityFiveHundredths
           /\ FLe(FInt(0), m) /\ FLe(m, FInt(1))
           /\ (FuncCount = 10 /\ FuncLines = 500 => m = Frac(2, 5))

\* modularity of 10 functions of 50 lines each has been computed
C15_Witness ==
    /\ ModularityOfParsedPython
    /\ FuncCount = 10
    /\ FuncLines = 500

\* assess_skills has ended for a language other than Python
DoneNonPython == pc = "done" /\ Lower(language) # "python"

\* C16: for a language other than Python, complexity is {0, 0}, modularity is
\* the default 0.5, readability is still computed from the lines, and the
\* assessment is produced without error.
C16_NonPythonDefaults ==
    DoneNonPython =>
        /\ complexity = ZeroComplexity
        /\ DOMAIN quality_metrics = {"maintainability", "readability", "modularity"}
        /\ quality_metrics.modularity = Frac(1, 2)
        /\ quality_metrics.readability.num * (1000 * LineCount)
             = quality_metrics.readability.den * ReadabilityThousandths
        /\ result.status = "returned"

\* Python code whose metrics were computed, and how its analysis failed
PythonMetricsComputed == MetricsComputed /\ Lower(language) = "python"
ParseFailed == parse.ast = "SyntaxError"
VisitorFailed == parse.ast = "ok" /\ ~IsBlank(code) /\ parse.blocks = <<>>

\* the modularity formula over the functions of the parsed tree
ParsedModularity ==
    LET fc == Len(parse.funcs)
    IN Frac(20 * Max(1, fc) * Min(10, fc)
              + 6 * Max(0, 50 * Max(1, fc) - SumSeq(parse.funcs)),
            500 * Max(1, fc))

\* C17 as stated: for Python code that fails to parse, or for which the
\* complexity visitor fails (code with no function or class block),
\* complexity is {0, 0} and modularity is 0.5.
C17_FailureDefaults ==
    (PythonMetricsComputed /\ (ParseFailed \/ VisitorFailed)) =>
        /\ complexity = ZeroComplexity
        /\ quality_metrics.modularity = Frac(1, 2)

\* C17 amended: a parse failure gives complexity {0, 0} and modularity 0.5; a
\* failure of the complexity visitor alone gives complexity {0, 0} while
\* modularity is computed by its formula; either failure is absorbed, so
\* that assess_skills goes on to feedback, and raises only if the reply
\* makes it raise.
C17_FailureAbsorbed ==
    PythonMetricsComputed =>
        /\ ParseFailed =>
             /\ complexity = ZeroComplexity
             /\ quality_metrics.modularity = Frac(1, 2)
        /\ VisitorFailed =>
             /\ complexity = ZeroComplexity
             /\ quality_metrics.modularity = ParsedModularity
             /\ quality_metrics.modularity # Frac(1, 2)
        /\ (pc = "done" /\ result.status # "returned") =>
             /\ result.status = "AttributeError"
             /\ Truthy(ai_feedback) /\ ~HasGet(ai_feedback)

\* an assessment was returned for Python code that parses but has no block
C17_Witness ==
    /\ PythonMetricsComputed
    /\ VisitorFailed
    /\ DoneReturned

\* C18: maintainability in the metric map is the value the estimator returned
\* whenever the estimator succeeds, and 50.0 only when the estimator fails.
C18_MaintainabilityIsEstimate ==
    MetricsComputed =>
        /\ mi.kind # "raise" => quality_metrics.maintainability = FInt(mi.v)
        /\ quality_metrics.maintainability = FInt(50) => mi.kind = "raise"

\* the package-level assess_skills has ended
PackageDone == pc = "done" /\ caller = "package"

\* C19: the package-level assess_skills returns the assessment with the
\* default assessor when client is None and with a new SkillAssessor(client)
\* otherwise; without a client it succeeds with the canned feedback.
C19_PackageAssess ==
    PackageDone =>
        /\ result.status = "returned"
        /\ client = "None" =>
             /\ result.value.feedback = NoClientFeedback.d.feedback
             /\ result.value.recommendations = NoClientFeedback.d.recommendations
        /\ client # "None" => calls = 1

\* no two stored users share a username or an email
UniqueUsers(stored) ==
    \A i, j \in 1..Len(stored) :
        i # j => /\ stored[i].username # stored[j].username
                 /\ stored[i].email # stored[j].email

\* the username or the email of the call is already stored
Taken(stored, username, email) ==
    \E i \in 1..Len(stored) :
        stored[i].username = username \/ stored[i].email = email

\* C20: register_user keeps usernames and emails unique; a call with a stored
\* username or email returns (False, message) and leaves the list unchanged;
\* a successful call appends exactly one user and leaves the earlier ones
\* unchanged.
C20_RegisterUnique ==
    [][ LET r == reg_result'
        IN /\ UniqueUsers(users')
           /\ Taken(users, r.username, r.email) =>
                /\ ~r.ok
                /\ r.message \in {"Username already exists", "Email already registered"}
                /\ users' = users
           /\ ~Taken(users, r.username, r.email) =>
                /\ r.ok
                /\ Len(users') = Len(users) + 1
                /\ SubSeq(users', 1, Len(users)) = users
                /\ users'[Len(users')].username = r.username
                /\ users'[Len(users')].email = r.email ]_authVars

\* with two users stored, a registration was refused for its email
C20_Witness ==
    /\ Len(users) >= 2
    /\ reg_result.called
    /\ ~reg_result.ok
    /\ reg_result.message = "Email already registered"

\* the stored account that makes a login with these credentials valid
ValidLogin(stored, username, password) ==
    \E i \in 1..Len(stored) :
        /\ stored[i].username = username
        /\ verify_password(password, stored[i].hashed_password)
        /\ ~stored[i].disabled

\* C21: authenticate_user returns a token if and only if the username is
\* stored, the password verifies against that user's hash and the account is
\* not disabled; otherwise it returns (None, message); no call changes the
\* stored user list.
C21_TokenIffValid ==
    [][ auth_result'.called =>
          LET r == auth_result'
          IN /\ r.token.jwt <=> ValidLogin(users, r.username, r.password)
             /\ r.token.jwt =>
                  r.token = Token(r.username) /\ r.message = "Login successful"
             /\ ~r.token.jwt =>
                  /\ r.token = NoToken
                  /\ r.message \in {"Invalid username or password", "Account is disabled"}
             /\ users' = users ]_vars

\* a login succeeded with two accounts stored beside the disabled one
C21_Witness ==
    /\ auth_result.called
    /\ auth_result.token.jwt
    /\ Len(users) >= 3

\* C22: the session holds 'token' exactly when it holds 'user': a successful
\* login sets both, a failed login leaves the session unchanged, logout
\* removes both, and is_authenticated() turns true only by a successful login.
C22_TokenWithUser ==
    [][ /\ session.has_user <=> session.has_token
        /\ session'.has_user <=> session'.has_token
        /\ (auth_result'.called /\ auth_result'.token.jwt) =>
             /\ session'.has_user /\ session'.user = auth_result'.username
             /\ session'.has_token /\ session'.token = auth_result'.token
        /\ (auth_result'.called /\ ~auth_result'.token.jwt) => session' = session
        /\ (is_authenticated(session) /\ rerun') =>
             /\ ~session'.has_user /\ ~session'.has_token
             /\ ~is_authenticated(session')
        /\ (~is_authenticated(session) /\ is_authenticated(session')) =>
             auth_result'.called /\ auth_result'.token.jwt ]_vars

\* the session has just been logged out
C22_Witness ==
    /\ rerun
    /\ ~is_authenticated(session)
    /\ session = NoSession
    /\ \E i \in 1..Len(users) : ~users[i].disabled

PageFunctions ==
    { "show_home", "show_profile", "show_resume_builder", "show_coding_environment",
      "show_learning_path", "show_mock_interview", "show_progress",
      "show_assessment_page", "show_community_hub" }

\* C23: a run of main() for an unauthenticated session calls none of the
\* page functions, whatever page is selected, and offers Community only to an
\* authenticated session.
C23_LoginFormOnly ==
    [][ /\ ~is_authenticated(session) =>
             /\ ran' \cap PageFunctions = {}
             /\ "Community" \notin Range(nav_options')
        /\ (~rerun' /\ ~is_authenticated(session')) =>
             /\ "show_login_form" \in ran'
             /\ "Community" \notin Range(nav_options') ]_vars

\* an unauthenticated session with a page other than Home selected
C23_Witness ==
    /\ ~is_authenticated(session)
    /\ current_page = "Assessment"
    /\ "show_login_form" \in ran
    /\ ran \cap PageFunctions = {}

\* a metric map holding maintainability m and the readability in use
MetricsWith(m) == [maintainability |-> FInt(m), readability |-> UsedReadability]

\* C24: the maintainability and readability that choose the level are the
\* ones that give the score, also when the metric map lacks them: one pair
\* of values (the map's entries where it has them) explains both.
C24_SameValues ==
    DoneReturned =>
        \E m \in 0..100 :
            /\ "maintainability" \in DOMAIN quality_metrics =>
                 quality_metrics.maintainability = FInt(m)
            /\ result.value.level =
                 determine_skill_level(complexity, MetricsWith(m), ai_feedback)
            /\ result.value.score =
                 calculate_skill_score(result.value.level, MetricsWith(m))

\* C25: the score is strictly ordered by level: of two assessments, the one
\* with the higher level (Beginner < Intermediate < Advanced < Expert) has the
\* strictly greater score.
C25_ScoreOrderedByLevel ==
    fn_out.set =>
        LET a == fn_out.value.a
            b == fn_out.value.b
        IN LevelRank(a.level) > LevelRank(b.level) => FGt(a.score, b.score)

\* an Intermediate assessment beside the Beginner one of blank code
C25_Witness ==
    /\ fn_out.set
    /\ fn_arg.b = EmptyDict
    /\ fn_out.value.a.level = "Intermediate"
    /\ fn_out.value.b.level = "Beginner"

\* what the run without collaborator returns for the same code and language
ReferenceRun ==
    BuildAssessment(language, complexity, quality_metrics,
                    get_ai_feedback_no_client(code, language, complexity, quality_metrics))

\* C26: level and score do not depend on the feedback collaborator: whatever
\* the collaborator does, the run produces the level and the score of the run
\* without collaborator on the same code and language.
C26_CollaboratorFree ==
    pc = "done" =>
        /\ result.status = "returned"
        /\ result.value.level = ReferenceRun.value.level
        /\ result.value.score = ReferenceRun.value.score

\* every register_user call in progress has returned
AllReturned == \A s \in Sessions : regs[s].pc = "returned"

\* C27: under any interleaving of concurrent register_user calls, every call
\* that returned (True, ...) has its user in the stored list once all calls
\* have finished, and stored usernames and emails remain unique.
C27_NoLostRegistration ==
    /\ UniqueUsers(users)
    /\ AllReturned =>
         \A s \in Sessions :
            regs[s].ok =>
                \E i \in 1..Len(users) :
                    /\ users[i].username = regs[s].username
                    /\ users[i].email = regs[s].email

\* the word count of the answer under rating and the base score it earns
AnswerWords == WordsOf(fn_arg.answer.phrase) + fn_arg.answer.filler

BaseOfWords ==
    IF AnswerWords < 10 THEN 1
    ELSE IF AnswerWords < 30 THEN 2
    ELSE IF AnswerWords < 60 THEN 3
    ELSE IF AnswerWords < 100 THEN 4
    ELSE 5

\* the answer contains one of the listed technical keywords
AnswerHasKeyword ==
    fn_arg.answer.phrase \in
        { "I used", "I implemented", "code", "algorithm", "optimized", "debugged",
          "framework" }

\* C28: rate_answer returns an integer in 1..5: the base by word count, and
\* for an interview type containing 'technical' min(5, base + 1) exactly when
\* the answer contains one of the listed technical keywords.
C28_RateAnswer ==
    fn_out.set =>
        /\ fn_out.value \in 1..5
        /\ fn_out.value =
             IF fn_arg.interview_type = "Technical Interview" /\ AnswerHasKeyword
             THEN Min(5, BaseOfWords + 1)
             ELSE BaseOfWords

\* C29: execute_code never raises and returns either stdout, stderr and
\* returncode or an 'error' entry: a run over the 10-second limit returns the
\* timed-out error, and a language without execution branch (Java, C++)
\* returns an 'error' result, not an output.
C29_ExecuteNeverRaises ==
    fn_out.set =>
        LET v == fn_out.value
        IN /\ \/ DOMAIN v = {"stdout", "stderr", "returncode"}
              \/ DOMAIN v = {"error"}
           /\ (fn_arg.language \in {"Python", "JavaScript"} /\ fn_arg.run.kind = "timeout")
                => v = [error |-> "Execution timed out. Check for infinite loops."]
           /\ (fn_arg.language \in {"Python", "JavaScript"} /\ fn_arg.run.kind = "completed")
                => v = [stdout |-> fn_arg.run.stdout, stderr |-> fn_arg.run.stderr,
                        returncode |-> fn_arg.run.returncode]
           /\ fn_arg.language \in {"Java", "C++"} => DOMAIN v = {"error"}

\* Java code was submitted and an 'error' result came back
C29_Witness ==
    /\ fn_out.set
    /\ fn_arg.language = "Java"
    /\ fn_arg.run.kind = "completed"
    /\ DOMAIN fn_out.value = {"error"}

\* C30: get_code_quality_metrics returns an empty issues list, the
\* maintainability the scorer computed (50 when it computed none) and the
\* cyclomatic complexity _calculate_complexity gives for the same code and
\* language.
C30_QualityMetrics ==
    fn_out.set =>
        LET scored == get_code_quality_metrics(fn_arg.code, fn_arg.language,
                                               fn_arg.tree, fn_arg.mi)
        IN /\ fn_out.value.issues = <<>>
           /\ fn_out.value.metrics.maintainability =
                (IF "maintainability" \in DOMAIN scored
                 THEN scored.maintainability ELSE FInt(50))
           /\ fn_out.value.metrics.complexity =
                calculate_complexity(fn_arg.code, fn_arg.language, fn_arg.tree).cyclomatic

====
